---------------------------- MODULE Spec2Model ----------------------------
(***************************************************************************)
(* A model of the query gateway of mysql_mcp_agent.py: the connection pool *)
(* life cycle of main/setup_mysql_connection/cleanup, the executor         *)
(* execute_query, the four tool operations and format_query_results.       *)
(*                                                                         *)
(* Text.  A Python str is modelled as a sequence of fragments.  All text   *)
(* whose characters matter (queries, table names, headers, cell values,    *)
(* the rendered table) holds one character per fragment, so Len is the     *)
(* length of the string.  The fixed wording of a message is kept as one    *)
(* fragment, its leading emoji written (x), (ok) or (i).  A multi-line     *)
(* string is a sequence of lines, the "\n" of the source being the line    *)
(* breaks.                                                                 *)
(***************************************************************************)
EXTENDS Integers, Sequences, FiniteSets, TLC

VARIABLES
    db_pool,     \* the global db_pool: "None", "open" or "closed" (a closed Pool object)
    used,        \* connections of the pool that are checked out
    mainPc,      \* where main() is
    probe,       \* what the start-up probe's fetchone() gave ("none" before it ran)
    setupOk,     \* what setup_mysql_connection returned: "none", "true", "false"
    agent,       \* TRUE once create_mysql_agent() has built the agent and its tools
    task,        \* the tool invocations: task[t] is one call of a tool
    results,     \* format_query_results under test: its rows
    status,      \* format_query_results under test: its status
    formatted,   \* format_query_results under test: what it returned
    fpc          \* "none" (not in use), "ready" (inputs drawn), "done" (formatted)

vars == <<db_pool, used, mainPc, probe, setupOk, agent, task,
          results, status, formatted, fpc>>

---------------------------------------------------------------------------
(* Bounds of the model *)

NTasks == 2
MaxRows == 25
MaxHeaderLen == 32
MaxValueLen == 31
MaxNameLen == 2

(* Program constants *)

DisplayLimit == 20
ColLimit == 30
PoolMaxSize == 10

---------------------------------------------------------------------------
(* Characters and Python's str methods *)

Min(a, b) == IF a < b THEN a ELSE b

Max(a, b) == IF a > b THEN a ELSE b

MaxOfSet(S) == CHOOSE x \in S : \A y \in S : y <= x

Lower == <<"a","b","c","d","e","f","g","h","i","j","k","l","m",
           "n","o","p","q","r","s","t","u","v","w","x","y","z">>

Upper == <<"A","B","C","D","E","F","G","H","I","J","K","L","M",
           "N","O","P","Q","R","S","T","U","V","W","X","Y","Z">>

Digit == <<"0","1","2","3","4","5","6","7","8","9">>

Range(s) == {s[i] : i \in DOMAIN s}

AsciiLetters == Range(Lower) \cup Range(Upper)

\* Letters outside ASCII that the model's inputs use: e-acute and E-acute,
\* each one character, written by its code point.
UnicodeLetters == {"U+00E9", "U+00C9"}

Whitespace == {" ", "\n", "\t"}

\* str.upper() and the lower-casing of re.IGNORECASE, one character at a time.
UpperOf == [c \in Range(Lower) \cup {"U+00E9"} |->
              IF c = "U+00E9" THEN "U+00C9" ELSE Upper[CHOOSE i \in 1..26 : Lower[i] = c]]

LowerOf == [c \in Range(Upper) \cup {"U+00C9"} |->
              IF c = "U+00C9" THEN "U+00E9" ELSE Lower[CHOOSE i \in 1..26 : Upper[i] = c]]

ToUpper(c) == IF c \in DOMAIN UpperOf THEN UpperOf[c] ELSE c

ToLower(c) == IF c \in DOMAIN LowerOf THEN LowerOf[c] ELSE c

StrUpper(s) == [i \in 1..Len(s) |-> ToUpper(s[i])]

\* str.isalnum() of one character: Unicode letters and digits count.
IsAlnumChar(c) == c \in AsciiLetters \cup UnicodeLetters \cup Range(Digit)

\* str.isalnum(): every character alphanumeric, and at least one character.
IsAlnum(s) == Len(s) > 0 /\ \A i \in 1..Len(s) : IsAlnumChar(s[i])

\* str.replace(c, ''): the string without its occurrences of c.
Remove(s, c) == SelectSeq(s, LAMBDA x : x # c)

\* str.strip(): without leading and trailing whitespace.
Strip(s) ==
    LET keep == {i \in 1..Len(s) : s[i] \notin Whitespace}
    IN  IF keep = {} THEN <<>>
        ELSE SubSeq(s, CHOOSE i \in keep : \A j \in keep : i <= j, MaxOfSet(keep))

\* str.startswith(p)
StartsWith(s, p) == Len(s) >= Len(p) /\ SubSeq(s, 1, Len(p)) = p

\* str.ljust(w): padded with spaces on the right to w characters, never cut.
Ljust(s, w) == s \o [i \in 1..(IF w > Len(s) THEN w - Len(s) ELSE 0) |-> " "]

\* s[:w]
Prefix(s, w) == SubSeq(s, 1, Min(Len(s), w))

RECURSIVE IntToStr(_)
\* str(n) of an integer
IntToStr(n) ==
    IF n < 0 THEN <<"-">> \o IntToStr(0 - n)
    ELSE IF n < 10 THEN <<Digit[n + 1]>>
    ELSE IntToStr(n \div 10) \o <<Digit[(n % 10) + 1]>>

RECURSIVE Grouped(_)
\* f"{n:,}" of a non-negative integer: the digits in groups of three
Grouped(n) ==
    IF n < 1000 THEN IntToStr(n)
    ELSE LET r == n % 1000
         IN  Grouped(n \div 1000) \o <<",">>
               \o (IF r < 10 THEN <<"0", "0">> ELSE IF r < 100 THEN <<"0">> ELSE <<>>)
               \o IntToStr(r)

RECURSIVE Join(_, _)
\* sep.join(parts)
Join(parts, sep) ==
    IF Len(parts) = 0 THEN <<>>
    ELSE IF Len(parts) = 1 THEN parts[1]
    ELSE parts[1] \o sep \o Join(Tail(parts), sep)

---------------------------------------------------------------------------
(* Values and rows: a row is a dict, kept as the sequence of its          *)
(* <<column, value>> items in insertion order.                             *)

IntVal(n) == [t |-> "int", v |-> n]

StrVal(s) == [t |-> "str", v |-> s]

NullVal == [t |-> "null"]

\* str(value)
StrOf(val) ==
    CASE val.t = "int" -> IntToStr(val.v)
      [] val.t = "str" -> val.v
      [] OTHER -> <<"N", "o", "n", "e">>

\* list(row.keys())
Keys(row) == [i \in 1..Len(row) |-> row[i][1]]

\* row.get(header, "")
Get(row, header) ==
    IF \E i \in 1..Len(row) : row[i][1] = header
    THEN row[CHOOSE i \in 1..Len(row) : row[i][1] = header][2]
    ELSE StrVal(<<>>)

---------------------------------------------------------------------------
(* format_query_results *)

\* a variant of DisplayRows that keeps one row too many
DisplayRowsOffByOne(rs) == SubSeq(rs, 1, Min(Len(rs), DisplayLimit + 1))

\* results[:20]
DisplayRows(rs) == SubSeq(rs, 1, Min(Len(rs), DisplayLimit))

\* col_widths[header]
ColWidth(display, header) ==
    Min(Max(Len(header),
            MaxOfSet({Len(StrOf(Get(display[i], header))) : i \in 1..Len(display)})),
        ColLimit)

ColSep == <<" ", "|", " ">>

HeaderRow(display, headers) ==
    Join([j \in 1..Len(headers) |-> Ljust(headers[j], ColWidth(display, headers[j]))],
         ColSep)

DataRow(display, headers, row) ==
    Join([j \in 1..Len(headers) |->
            Prefix(Ljust(StrOf(Get(row, headers[j])), ColWidth(display, headers[j])),
                   ColWidth(display, headers[j]))],
         ColSep)

\* the lines added when there are more results than displayed
MoreRows(rs, display) ==
    IF Len(rs) > Len(display)
    THEN << <<>>, <<"... and ">> \o IntToStr(Len(rs) - Len(display)) \o <<" more rows">> >>
    ELSE <<>>

format_query_results(rs, st) ==
    IF Len(rs) = 0 \/ Len(DisplayRows(rs)) = 0 THEN <<st>>
    ELSE LET display == DisplayRows(rs)
             headers == Keys(display[1])
             header_row == HeaderRow(display, headers)
         IN  <<st, <<>>, header_row, [i \in 1..Len(header_row) |-> "-"]>>
               \o [i \in 1..Len(display) |-> DataRow(display, headers, display[i])]
               \o MoreRows(rs, display)
               \o << <<>>, <<"Total rows: ">> \o IntToStr(Len(rs)) >>

---------------------------------------------------------------------------
(* The safety filter of execute_sql_query and the identifier check *)

DROP == <<"D","R","O","P">>
DELETE == <<"D","E","L","E","T","E">>
TRUNCATE == <<"T","R","U","N","C","A","T","E">>
ALTER == <<"A","L","T","E","R">>
CREATE == <<"C","R","E","A","T","E">>
INSERT == <<"I","N","S","E","R","T">>
UPDATE == <<"U","P","D","A","T","E">>

forbidden_keywords == <<DROP, DELETE, TRUNCATE, ALTER, CREATE, INSERT, UPDATE>>

\* \w of a str pattern: Unicode letters and digits, and the underscore
IsWordChar(c) == IsAlnumChar(c) \/ c = "_"

\* whether q has a word character at position p (none outside the string)
WordAt(q, p) == p \in 1..Len(q) /\ IsWordChar(q[p])

\* \b just before position p: exactly one side is a word character
Boundary(q, p) == WordAt(q, p - 1) # WordAt(q, p)

\* the keyword's characters at position i, compared as re.IGNORECASE does
MatchAt(q, i, kw) == \A j \in 1..Len(kw) : ToLower(q[i + j - 1]) = ToLower(kw[j])

\* a variant of Search that compares the characters exactly (no re.IGNORECASE)
SearchCaseSensitive(kw, q) ==
    \E i \in 1..(Len(q) - Len(kw) + 1) :
        /\ Boundary(q, i)
        /\ \A j \in 1..Len(kw) : q[i + j - 1] = kw[j]
        /\ Boundary(q, i + Len(kw))

\* a variant of Search without the two \b
SearchNoBoundary(kw, q) ==
    \E i \in 1..(Len(q) - Len(kw) + 1) : MatchAt(q, i, kw)

\* re.search(rf"\b{keyword}\b", query, re.IGNORECASE) is not None
Search(kw, q) ==
    \E i \in 1..(Len(q) - Len(kw) + 1) :
        Boundary(q, i) /\ MatchAt(q, i, kw) /\ Boundary(q, i + Len(kw))

\* the for loop over forbidden_keywords: the index of the first keyword found, or 0
FirstForbidden(q) ==
    LET hits == {k \in 1..Len(forbidden_keywords) : Search(forbidden_keywords[k], q)}
    IN  IF hits = {} THEN 0 ELSE CHOOSE k \in hits : \A m \in hits : k <= m

Rejection(kw) ==
    <<"(x) Query contains forbidden keyword '">> \o kw
      \o <<"'. Only SELECT, SHOW, and DESCRIBE queries are allowed for safety.">>

InvalidTableName ==
    <<"(x) Invalid table name. Only alphanumeric characters, underscores, and hyphens are allowed.">>

\* a variant of ValidTableName that asks for one alphanumeric character only
ValidTableNameLoose(table_name) == \E i \in 1..Len(table_name) : IsAlnumChar(table_name[i])

\* table_name.replace('_', '').replace('-', '').isalnum()
ValidTableName(table_name) == IsAlnum(Remove(Remove(table_name, "_"), "-"))

---------------------------------------------------------------------------
(* execute_query *)

SELECT == <<"S","E","L","E","C","T">>
SHOW == <<"S","H","O","W">>
DESCRIBE == <<"D","E","S","C","R","I","B","E">>
DESC == <<"D","E","S","C">>

NoConn == <<"(x) No database connection available">>

Success == <<"(ok) Query executed successfully">>

Affected(n) == <<"(ok) Query executed successfully. ">> \o IntToStr(n) \o <<" rows affected.">>

\* f"(x) Error executing query: {str(e)}": the text of the exception is the driver's
ErrorStatus == <<"(x) Error executing query: ", "str(e)">>

\* query.strip().upper().startswith(('SELECT', 'SHOW', 'DESCRIBE', 'DESC'))
IsReadQuery(query) ==
    \E p \in {SELECT, SHOW, DESCRIBE, DESC} : StartsWith(StrUpper(Strip(query)), p)

\* a variant of Catches for a try block that starts inside the async with
CatchesInsideOnly(kind, where) == kind = "Exception" /\ where = "execute"

\* except Exception around acquisition and execution: every Exception is
\* caught wherever it is raised; asyncio.CancelledError is a BaseException.
Catches(kind, where) == kind = "Exception" /\ where \in {"acquire", "execute"}

\* a variant of ReleaseOnExit that releases only on the normal return
ReleaseOnReturnOnly(u, how) == IF how = "return" THEN u - 1 ELSE u

\* async with db_pool.acquire() as conn: the connection goes back to the pool
\* however the block is left ("return", "exception", "cancel")
ReleaseOnExit(u, how) == IF how \in {"return", "exception", "cancel"} THEN u - 1 ELSE u

---------------------------------------------------------------------------
(* The tool invocations.  The fields nq (calls of execute_query), acq      *)
(* (connections acquired), wrote (the rows-affected branch was taken),     *)
(* failed (the last execute_query caught an exception), entry (db_pool at  *)
(* the last call of execute_query) and ret (what it returned) record what  *)
(* the invocation did; the code does not read them.                        *)

Tasks == 1..NTasks

NoTask == [pc |-> "idle", op |-> "none", arg |-> <<>>, phase |-> 0, query |-> <<>>,
           first |-> [rows |-> <<>>, status |-> <<>>], result |-> <<>>,
           nq |-> 0, acq |-> 0, wrote |-> FALSE, failed |-> FALSE,
           entry |-> "none", ret |-> [rows |-> <<>>, status |-> <<>>]]

\* the backtick character, written by its code point
Backtick == "U+0060"

db_name == <<"t","e","s","t">>

DescribeQuery(table_name) ==
    SELECT \o <<" COLUMN_NAME, COLUMN_TYPE, IS_NULLABLE, COLUMN_KEY, COLUMN_DEFAULT, EXTRA, COLUMN_COMMENT FROM INFORMATION_SCHEMA.COLUMNS WHERE TABLE_SCHEMA = '">>
      \o db_name \o <<"' AND TABLE_NAME = '">> \o table_name \o <<"'">>

ShowTablesQuery == <<"S","H","O","W"," ","T","A","B","L","E","S">>

DescribeStmt(table_name) == DESCRIBE \o <<" ", Backtick>> \o table_name \o <<Backtick>>

CountQuery(table_name) ==
    SELECT \o <<" COUNT(", "*", ") as row_count FROM ", Backtick>> \o table_name \o <<Backtick>>

row_count == <<"r","o","w","_","c","o","u","n","t">>

\* the response of get_table_info
InfoResponse(table_name, count_results, describe_results, describe_status) ==
    << <<"(i) Table Information: ">> \o table_name, <<>> >>
      \o (IF Len(count_results) > 0
          THEN << <<"Total Rows: ">> \o Grouped(Get(count_results[1], row_count).v), <<>> >>
          ELSE <<>>)
      \o << <<"Table Structure:">> >>
      \o format_query_results(describe_results, describe_status)

RECURSIVE Returned(_, _, _, _)
\* a call of execute_query(query): without a pool it returns at once,
\* otherwise it goes on to acquire a connection
execute_query(r, query, pool) ==
    LET r1 == [r EXCEPT !.query = query, !.nq = @ + 1, !.entry = pool, !.failed = FALSE]
    IN  IF pool = "None" THEN Returned(r1, <<>>, NoConn, pool)
        ELSE [r1 EXCEPT !.pc = "acquire"]

\* execute_query has returned (rows, st) to the tool, which goes on from there
Returned(r, rows, st, pool) ==
    LET r1 == [r EXCEPT !.ret = [rows |-> rows, status |-> st]]
    IN  IF r.op = "get_table_info" /\ r.phase = 1
        THEN execute_query([r1 EXCEPT !.first = [rows |-> rows, status |-> st], !.phase = 2],
                           CountQuery(r.arg), pool)
        ELSE IF r.op = "get_table_info"
        THEN [r1 EXCEPT !.pc = "done",
                        !.result = InfoResponse(r.arg, rows, r.first.rows, r.first.status)]
        ELSE [r1 EXCEPT !.pc = "done", !.result = format_query_results(rows, st)]

\* an exception of the given kind raised while acquiring or executing
Raised(r, kind, where, pool) ==
    IF Catches(kind, where)
    THEN Returned([r EXCEPT !.failed = TRUE], <<>>, ErrorStatus, pool)
    ELSE [r EXCEPT !.pc = IF kind = "CancelledError" THEN "cancelled" ELSE "raised"]

execute_sql_query(query, pool) ==
    LET k == FirstForbidden(query)
        r == [NoTask EXCEPT !.op = "execute_sql_query", !.arg = query]
    IN  IF k # 0 THEN [r EXCEPT !.pc = "done", !.result = <<Rejection(forbidden_keywords[k])>>]
        ELSE execute_query(r, query, pool)

describe_table(table_name, pool) ==
    LET r == [NoTask EXCEPT !.op = "describe_table", !.arg = table_name]
    IN  IF ~ValidTableName(table_name)
        THEN [r EXCEPT !.pc = "done", !.result = <<InvalidTableName>>]
        ELSE execute_query(r, DescribeQuery(table_name), pool)

list_tables(pool) ==
    execute_query([NoTask EXCEPT !.op = "list_tables"], ShowTablesQuery, pool)

get_table_info(table_name, pool) ==
    LET r == [NoTask EXCEPT !.op = "get_table_info", !.arg = table_name, !.phase = 1]
    IN  IF ~ValidTableName(table_name)
        THEN [r EXCEPT !.pc = "done", !.result = <<InvalidTableName>>]
        ELSE execute_query(r, DescribeStmt(table_name), pool)

ToolCall(op, arg, pool) ==
    CASE op = "execute_sql_query" -> execute_sql_query(arg, pool)
      [] op = "describe_table" -> describe_table(arg, pool)
      [] op = "get_table_info" -> get_table_info(arg, pool)
      [] OTHER -> list_tables(pool)

---------------------------------------------------------------------------
(* The database behind cursor.execute and fetchall *)

SET == <<"S","E","T">>
REPLACE == <<"R","E","P","L","A","C","E">>
CALL == <<"C","A","L","L">>
GRANT == <<"G","R","A","N","T">>

\* the statements the server knows, by their first word
StatementVerbs ==
    {SELECT, SHOW, DESCRIBE, DESC, SET, REPLACE, CALL, GRANT} \cup Range(forbidden_keywords)

\* the first word of the statement, in upper case
FirstWord(query) ==
    LET q == Strip(query)
        stop == {i \in 1..Len(q) : ~IsWordChar(q[i])}
        n == IF stop = {} THEN Len(q) ELSE (CHOOSE i \in stop : \A j \in stop : i <= j) - 1
    IN  StrUpper(SubSeq(q, 1, n))

\* cursor.execute(query) can succeed only on a statement the server knows
DbAccepts(query) == FirstWord(query) \in StatementVerbs

OneRow(column, val) == << <<column, val>> >>

\* what fetchall() can give the invocation r
DbRows(r) ==
    CASE r.op = "get_table_info" /\ r.phase = 1 ->
           { << OneRow(<<"F","i","e","l","d">>, StrVal(<<"i","d">>))
                  \o OneRow(<<"T","y","p","e">>, StrVal(<<"i","n","t">>)) >> }
      [] r.op = "get_table_info" ->
           { <<OneRow(row_count, IntVal(1234567))>> }
      [] r.op = "describe_table" ->
           { <<>>,
             << OneRow(<<"C","O","L","U","M","N","_","N","A","M","E">>, StrVal(<<"i","d">>))
                  \o OneRow(<<"E","X","T","R","A">>, NullVal) >> }
      [] r.op = "list_tables" ->
           { <<>>,
             << OneRow(<<"T","a","b","l","e","s","_","i","n","_","t","e","s","t">>,
                       StrVal(<<"u","s","e","r","s">>)) >> }
      [] OTHER ->
           { <<>>, <<OneRow(<<"1">>, IntVal(1))>> }

\* cursor.rowcount after a statement that is not a read
RowCounts == {0, 1}

---------------------------------------------------------------------------
(* The inputs the model draws *)

StrLower(s) == [i \in 1..Len(s) |-> ToLower(s[i])]

\* the keyword in mixed case: every second letter in lower case
Alternate(s) == [i \in 1..Len(s) |-> IF i % 2 = 0 THEN ToLower(s[i]) ELSE s[i]]

Casings(kw) == {kw, StrLower(kw), Alternate(kw)}

QueryPre ==
    { <<>>, <<" ">>, <<"x">>, <<"_">>, <<";">>, <<"U+00E9">>,
      <<"S","E","L","E","C","T"," ">>,
      <<"u","p","d","a","t","e"," ">> }

QueryMid ==
    UNION {Casings(forbidden_keywords[k]) : k \in 1..Len(forbidden_keywords)}
      \cup { <<>>,
             <<"U","P","D","A","T","E","D","_","A","T">>,
             <<"U","P","D","A","T","E","D","A","T">>,
             <<"c","r","e","a","t","e","d","_","o","n">>,
             <<"S","E","L","E","C","T"," ","1">>,
             <<"d","e","s","c"," ","t">>,
             <<"S","E","T"," ","a","u","t","o","c","o","m","m","i","t","=","0">>,
             <<"R","E","P","L","A","C","E"," ","I","N","T","O"," ","t"," ",
               "V","A","L","U","E","S"," ","(","1",")">>,
             <<"C","A","L","L"," ","p","(",")">> }

QueryPost ==
    { <<>>, <<" ">>, <<"s">>, <<"_">>, <<";">>, <<"1">>, <<"(">>, <<"$">>, <<"U+00E9">>,
      <<" ","D","R","O","P">> }

\* the queries the gateway is called with
Queries == {p \o m \o s : p \in QueryPre, m \in QueryMid, s \in QueryPost}

NameChars == {"a", "Z", "7", "_", "-", "U+00E9", " ", ";", "'", Backtick}

\* the table names the gateway is called with: at most MaxNameLen characters
Names == UNION {[1..n -> NameChars] : n \in 0..MaxNameLen}

BigCalls ==
    ({"execute_sql_query"} \X Queries)
      \cup ({"describe_table", "get_table_info"} \X Names)
      \cup {<<"list_tables", <<>>>>}

SmallQueries ==
    { <<"d","r","o","p"," ","t">>,
      <<"S","E","T"," ","x","=","1">> }

\* the calls of the concurrent model
SmallCalls ==
    ({"execute_sql_query"} \X SmallQueries)
      \cup {<<"describe_table", <<"a", ";">>>>, <<"get_table_info", <<"t">>>>,
            <<"list_tables", <<>>>>}

PoolValues == {"None", "open", "closed"}

\* ToolCall tabulated over the calls the models make
SmallCallTable ==
    [c \in SmallCalls |-> [pool \in PoolValues |-> ToolCall(c[1], c[2], pool)]]

BigCallTable ==
    [c \in BigCalls |-> [pool \in PoolValues |-> ToolCall(c[1], c[2], pool)]]

\* what the tool op, called with arg, does up to its first await
Called(op, arg, pool) ==
    IF <<op, arg>> \in SmallCalls THEN SmallCallTable[<<op, arg>>][pool]
    ELSE BigCallTable[<<op, arg>>][pool]

---------------------------------------------------------------------------
(* The steps of a tool invocation *)

\* The agent calls the tool op with the argument arg.
Invoke(t, op, arg) ==
    /\ mainPc = "running"
    /\ agent
    /\ task[t].pc = "idle"
    /\ task' = [task EXCEPT ![t] = Called(op, arg, db_pool)]
    /\ UNCHANGED <<db_pool, used, mainPc, probe, setupOk, agent,
                   results, status, formatted, fpc>>

\* db_pool.acquire() gives a connection
Acquire(t) ==
    /\ task[t].pc = "acquire"
    /\ db_pool = "open"
    /\ used < PoolMaxSize
    /\ used' = used + 1
    /\ task' = [task EXCEPT ![t].pc = "execute", ![t].acq = @ + 1]
    /\ UNCHANGED <<db_pool, mainPc, probe, setupOk, agent, results, status, formatted, fpc>>

\* db_pool.acquire() raises: the pool is closed, or the server cannot be reached
AcquireFail(t) ==
    /\ task[t].pc = "acquire"
    /\ task' = [task EXCEPT ![t] =
                  Raised(task[t], "Exception", "acquire", db_pool)]
    /\ UNCHANGED <<db_pool, used, mainPc, probe, setupOk, agent,
                   results, status, formatted, fpc>>

\* cursor.execute(query) succeeds; the statement is classified and answered
ExecOk(t) ==
    /\ task[t].pc = "execute"
    /\ DbAccepts(task[t].query)
    /\ used' = ReleaseOnExit(used, "return")
    /\ IF IsReadQuery(task[t].query)
       THEN \E rows \in DbRows(task[t]) :
              task' = [task EXCEPT ![t] = Returned(task[t], rows, Success, db_pool)]
       ELSE \E n \in RowCounts :
              task' = [task EXCEPT ![t] =
                         Returned([task[t] EXCEPT !.wrote = TRUE], <<>>, Affected(n), db_pool)]
    /\ UNCHANGED <<db_pool, mainPc, probe, setupOk, agent, results, status, formatted, fpc>>

\* cursor.execute(query) or fetchall() raises
ExecFail(t) ==
    /\ task[t].pc = "execute"
    /\ used' = ReleaseOnExit(used, "exception")
    /\ task' = [task EXCEPT ![t] =
                  Raised(task[t], "Exception", "execute", db_pool)]
    /\ UNCHANGED <<db_pool, mainPc, probe, setupOk, agent, results, status, formatted, fpc>>

\* The invocation's task is cancelled while it waits for the pool or the server.
Cancel(t) ==
    /\ task[t].pc \in {"acquire", "execute"}
    /\ used' = IF task[t].pc = "execute" THEN ReleaseOnExit(used, "cancel") ELSE used
    /\ task' = [task EXCEPT ![t] =
                  Raised(task[t], "CancelledError", task[t].pc, db_pool)]
    /\ UNCHANGED <<db_pool, mainPc, probe, setupOk, agent, results, status, formatted, fpc>>

\* The caller has taken the invocation's outcome; the slot serves the next call.
Return(t) ==
    /\ task[t].pc \in {"done", "cancelled"}
    /\ task' = [task EXCEPT ![t] = NoTask]
    /\ UNCHANGED <<db_pool, used, mainPc, probe, setupOk, agent,
                   results, status, formatted, fpc>>

---------------------------------------------------------------------------
(* main, setup_mysql_connection and cleanup *)

\* a variant of AfterSetup that goes on whatever setup returned
AfterSetupAlways(ok) == "create_agent"

\* main: if not await setup_mysql_connection(...): return (through finally)
AfterSetup(ok) == IF ok THEN "create_agent" ELSE "cleanup"

\* main's checks of OPENAI_API_KEY and of the MySQL configuration
MainCheckConfig ==
    /\ mainPc = "start"
    /\ \E ok \in BOOLEAN : mainPc' = IF ok THEN "create_pool" ELSE "exited"
    /\ UNCHANGED <<db_pool, used, probe, setupOk, agent, task,
                   results, status, formatted, fpc>>

\* aiomysql.create_pool(...) returns the pool or raises
SetupCreatePool ==
    /\ mainPc = "create_pool"
    /\ \E ok \in BOOLEAN :
         IF ok
         THEN /\ db_pool' = "open"
              /\ mainPc' = "probe_acquire"
              /\ UNCHANGED setupOk
         ELSE /\ setupOk' = "false"
              /\ mainPc' = AfterSetup(FALSE)
              /\ UNCHANGED db_pool
    /\ UNCHANGED <<used, probe, agent, task, results, status, formatted, fpc>>

\* the probe's db_pool.acquire()
ProbeAcquire ==
    /\ mainPc = "probe_acquire"
    /\ \E ok \in BOOLEAN :
         IF ok
         THEN /\ used < PoolMaxSize
              /\ used' = used + 1
              /\ mainPc' = "probe_exec"
              /\ UNCHANGED setupOk
         ELSE /\ setupOk' = "false"
              /\ mainPc' = AfterSetup(FALSE)
              /\ UNCHANGED used
    /\ UNCHANGED <<db_pool, probe, agent, task, results, status, formatted, fpc>>

\* what the probe can come to: fetchone() gives (1,) or another row, or
\* execute/fetchone raises (result[0] of None raises too)
ProbeOutcomes == {"1", "0", "error"}

\* SELECT 1, fetchone(), the test result[0] == 1, and the return of setup
ProbeExec ==
    /\ mainPc = "probe_exec"
    /\ \E r \in ProbeOutcomes :
         /\ probe' = r
         /\ used' = ReleaseOnExit(used, IF r = "error" THEN "exception" ELSE "return")
         /\ setupOk' = IF r = "1" THEN "true" ELSE "false"
         /\ mainPc' = AfterSetup(r = "1")
    /\ UNCHANGED <<db_pool, agent, task, results, status, formatted, fpc>>

\* main is cancelled (an interrupt) during the probe: finally runs cleanup
ProbeCancel ==
    /\ mainPc \in {"probe_acquire", "probe_exec"}
    /\ used' = IF mainPc = "probe_exec" THEN ReleaseOnExit(used, "cancel") ELSE used
    /\ mainPc' = "cleanup"
    /\ UNCHANGED <<db_pool, probe, setupOk, agent, task, results, status, formatted, fpc>>

\* agent = create_mysql_agent(): the four tools exist from here on
CreateAgent ==
    /\ mainPc = "create_agent"
    /\ agent' = TRUE
    /\ mainPc' = "running"
    /\ UNCHANGED <<db_pool, used, probe, setupOk, task, results, status, formatted, fpc>>

\* the interactive loop ends: quit, an interrupt, an exception
MainBreak ==
    /\ mainPc = "running"
    /\ mainPc' = "cleanup"
    /\ UNCHANGED <<db_pool, used, probe, setupOk, agent, task,
                   results, status, formatted, fpc>>

\* cleanup: if db_pool: db_pool.close() (the global keeps the closed pool)
CleanupClose ==
    /\ mainPc = "cleanup"
    /\ IF db_pool # "None"
       THEN db_pool' = "closed" /\ mainPc' = "wait_closed"
       ELSE UNCHANGED db_pool /\ mainPc' = "exited"
    /\ UNCHANGED <<used, probe, setupOk, agent, task, results, status, formatted, fpc>>

\* await db_pool.wait_closed(): returns once every connection is back
CleanupWaitClosed ==
    /\ mainPc = "wait_closed"
    /\ used = 0
    /\ mainPc' = "exited"
    /\ UNCHANGED <<db_pool, used, probe, setupOk, agent, task,
                   results, status, formatted, fpc>>

---------------------------------------------------------------------------
(* The whole program: main and NTasks concurrent tool invocations *)

NoFormat ==
    /\ results = <<>>
    /\ status = <<>>
    /\ formatted = <<>>
    /\ fpc = "none"

Init ==
    /\ db_pool = "None"
    /\ used = 0
    /\ mainPc = "start"
    /\ probe = "none"
    /\ setupOk = "none"
    /\ agent = FALSE
    /\ task = [t \in Tasks |-> NoTask]
    /\ NoFormat

Next ==
    \/ MainCheckConfig
    \/ SetupCreatePool
    \/ ProbeAcquire
    \/ ProbeExec
    \/ ProbeCancel
    \/ CreateAgent
    \/ MainBreak
    \/ CleanupClose
    \/ CleanupWaitClosed
    \/ \E t \in Tasks : \E c \in SmallCalls : Invoke(t, c[1], c[2])
    \/ \E t \in Tasks : Acquire(t)
    \/ \E t \in Tasks : AcquireFail(t)
    \/ \E t \in Tasks : ExecOk(t)
    \/ \E t \in Tasks : ExecFail(t)
    \/ \E t \in Tasks : Cancel(t)
    \/ \E t \in Tasks : Return(t)

Spec == Init /\ [][Next]_vars

---------------------------------------------------------------------------
(* The gateway under one caller: the pool is open, the agent exists, and   *)
(* the caller makes one call after the other with any of the inputs.       *)

InitG ==
    /\ db_pool = "open"
    /\ used = 0
    /\ mainPc = "running"
    /\ probe = "1"
    /\ setupOk = "true"
    /\ agent = TRUE
    /\ task = [t \in Tasks |-> NoTask]
    /\ NoFormat

NextG ==
    \/ \E c \in BigCalls : Invoke(1, c[1], c[2])
    \/ Acquire(1)
    \/ AcquireFail(1)
    \/ ExecOk(1)
    \/ ExecFail(1)
    \/ Cancel(1)
    \/ Return(1)

SpecG == InitG /\ [][NextG]_vars

---------------------------------------------------------------------------
(* format_query_results on its own *)

\* a column name of h characters
HeaderText(h) == [k \in 1..h |-> Lower[((k - 1) % 26) + 1]]

\* a value of n characters
BodyText(n) == [k \in 1..n |-> Upper[((k - 1) % 26) + 1]]

HeaderLens == {1, 2} \cup ((ColLimit - 1)..MaxHeaderLen)

ValueLens == {0, 1, 50} \cup ((ColLimit - 1)..MaxValueLen)

\* n rows of two columns: id, the row's number; and a column of h characters
\* whose value has len characters in row pos and is "v" in the others
FmtRows(n, h, pos, len) ==
    [i \in 1..n |->
       << <<<<"i", "d">>, IntVal(i)>>,
          <<HeaderText(h), StrVal(IF i = pos THEN BodyText(len) ELSE <<"v">>)>> >>]

FmtResults ==
    {<<>>} \cup
    { FmtRows(n, h, pos, len) :
        n \in 1..MaxRows, h \in HeaderLens,
        pos \in {1, DisplayLimit, DisplayLimit + 1, MaxRows}, len \in ValueLens }

InitF ==
    /\ db_pool = "None"
    /\ used = 0
    /\ mainPc = "start"
    /\ probe = "none"
    /\ setupOk = "none"
    /\ agent = FALSE
    /\ task = [t \in Tasks |-> NoTask]
    /\ results \in FmtResults
    /\ status \in (IF results = <<>> THEN {Success, NoConn, ErrorStatus} ELSE {Success})
    /\ formatted = <<>>
    /\ fpc = "ready"

Format ==
    /\ fpc = "ready"
    /\ formatted' = format_query_results(results, status)
    /\ fpc' = "done"
    /\ UNCHANGED <<db_pool, used, mainPc, probe, setupOk, agent, task, results, status>>

NextF == Format

SpecF == InitF /\ [][NextF]_vars

---------------------------------------------------------------------------
(* What the claims speak of, stated without the code's own operators *)

\* the characters of an identifier: letters, digits, underscore
IdentChar(c) == c \in AsciiLetters \cup UnicodeLetters \cup Range(Digit) \cup {"_"}

\* q[i..j] is a whole word: identifier characters with none before or after
WholeWord(q, i, j) ==
    /\ 1 <= i /\ i <= j /\ j <= Len(q)
    /\ \A k \in i..j : IdentChar(q[k])
    /\ (i = 1 \/ ~IdentChar(q[i - 1]))
    /\ (j = Len(q) \/ ~IdentChar(q[j + 1]))

\* the deny-listed keywords that are a whole word of q, in some letter case
DeniedWords(q) ==
    {k \in 1..Len(forbidden_keywords) :
       \E i \in 1..Len(q) :
          LET j == i + Len(forbidden_keywords[k]) - 1
          IN  WholeWord(q, i, j) /\ StrUpper(SubSeq(q, i, j)) = forbidden_keywords[k]}

\* the deny-listed keywords that occur somewhere in q, in some letter case
DeniedSubstrings(q) ==
    {k \in 1..Len(forbidden_keywords) :
       \E i \in 1..(Len(q) - Len(forbidden_keywords[k]) + 1) :
          StrUpper(SubSeq(q, i, i + Len(forbidden_keywords[k]) - 1)) = forbidden_keywords[k]}

\* the line is the rejection that names the keyword kw
NamesKeyword(line, kw) ==
    /\ Len(line) = Len(kw) + 2
    /\ line[1] = "(x) Query contains forbidden keyword '"
    /\ SubSeq(line, 2, Len(kw) + 1) = kw
    /\ line[Len(line)] = "'. Only SELECT, SHOW, and DESCRIBE queries are allowed for safety."

\* the tool's result is a rejection of the safety filter
IsRejection(res) ==
    Len(res) = 1 /\ Len(res[1]) > 0 /\ res[1][1] = "(x) Query contains forbidden keyword '"

\* C1: a query with a deny-listed keyword as a whole word, in any letter
\* case, is answered by the rejection naming the first such keyword of the
\* list, and execute_query is never called: no connection is acquired.
C1_DeniedKeywordRejected ==
    \A t \in Tasks :
       LET r == task[t]
           denied == DeniedWords(r.arg)
       IN  (r.op = "execute_sql_query" /\ denied # {}) =>
              /\ r.pc = "done"
              /\ Len(r.result) = 1
              /\ NamesKeyword(r.result[1],
                              forbidden_keywords[CHOOSE k \in denied : \A m \in denied : k <= m])
              /\ r.nq = 0
              /\ r.acq = 0

\* "update dRoP": two keywords, DROP first in the list, rejected naming DROP
C1_Witness ==
    /\ task[1].op = "execute_sql_query"
    /\ task[1].arg = <<"u","p","d","a","t","e"," ","D","r","O","p">>
    /\ task[1].pc = "done"
    /\ NamesKeyword(task[1].result[1], DROP)
    /\ task[1].nq = 0

\* C2: whatever the query, execute_sql_query never takes the executor's
\* rows-affected branch: every statement it hands over and the server runs
\* is a read.
C2_NoMutationBranch ==
    \A t \in Tasks : task[t].op = "execute_sql_query" => ~task[t].wrote

AsciiNameChars == AsciiLetters \cup Range(Digit) \cup {"_", "-"}

AlnumNameChars == AsciiNameChars \cup UnicodeLetters

\* a call of describe_table or get_table_info was refused without a query
RefusedName(r) ==
    /\ r.pc = "done"
    /\ r.result = <<InvalidTableName>>
    /\ r.nq = 0
    /\ r.acq = 0

\* C3 as stated: a table name with a character outside [A-Za-z0-9_-] is
\* refused with the invalid-table-name message and no call of execute_query.
C3_AsciiNamesOnly ==
    \A t \in Tasks :
       LET r == task[t]
       IN  (r.op \in {"describe_table", "get_table_info"}
              /\ \E i \in 1..Len(r.arg) : r.arg[i] \notin AsciiNameChars)
           => RefusedName(r)

\* C3 amended: a table name with a character that is neither alphanumeric
\* (as str.isalnum counts it, letters outside ASCII included) nor "_" nor
\* "-" is refused with the invalid-table-name message and no call of
\* execute_query; a name that reaches SQL text has only such characters.
C3_AlnumNamesOnly ==
    \A t \in Tasks :
       LET r == task[t]
       IN  /\ (r.op \in {"describe_table", "get_table_info"}
                 /\ \E i \in 1..Len(r.arg) : r.arg[i] \notin AlnumNameChars)
              => RefusedName(r)
           /\ (r.op \in {"describe_table", "get_table_info"} /\ r.nq > 0)
              => \A i \in 1..Len(r.arg) : r.arg[i] \in AlnumNameChars

\* get_table_info("a;") is refused without a query
C3_Witness ==
    /\ task[1].op = "get_table_info"
    /\ task[1].arg = <<"a", ";">>
    /\ RefusedName(task[1])

\* the invocations that hold a connection
Holders == {t \in Tasks : task[t].pc = "execute"}

\* C4: the connections checked out are exactly those of the invocations
\* inside their async with block and of the probe; so when no call is in
\* flight none is checked out, whichever way the calls ended.
C4_AcquireReleaseBalance ==
    /\ used = Cardinality(Holders) + (IF mainPc = "probe_exec" THEN 1 ELSE 0)
    /\ ((\A t \in Tasks : task[t].pc \in {"idle", "done", "cancelled"})
          /\ mainPc \notin {"probe_acquire", "probe_exec"}) => used = 0

\* one call was cancelled while it held a connection, another caught an
\* exception while it held one, and nothing is checked out
C4_Witness ==
    \E t, u \in Tasks :
       /\ task[t].pc = "cancelled" /\ task[t].acq = 1
       /\ task[u].pc = "done" /\ task[u].failed /\ task[u].acq = 1
       /\ used = 0

\* C5: no failure of acquisition or execution leaves execute_query as an
\* exception: it returns no rows and the error status, and a tool that has
\* ended has returned a string.
C5_ErrorsAbsorbed ==
    \A t \in Tasks :
       LET r == task[t]
       IN  /\ r.pc # "raised"
           /\ r.failed =>
                /\ r.ret.rows = <<>>
                /\ Len(r.ret.status) = 2
                /\ r.ret.status[1] = "(x) Error executing query: "
           /\ r.pc = "done" => Len(r.result) >= 1

\* a call whose acquisition failed has returned the error status as its string
C5_Witness ==
    \E t \in Tasks :
       /\ task[t].op = "list_tables"
       /\ task[t].pc = "done"
       /\ task[t].failed
       /\ task[t].acq = 0
       /\ task[t].result = << <<"(x) Error executing query: ", "str(e)">> >>

\* C6: when execute_query is called and no pool exists (db_pool is None, or
\* cleanup has closed the pool), it returns the no-connection status at once
\* and does not go on to acquire a connection.
C6_NoPoolNoAcquire ==
    \A t \in Tasks :
       LET r == task[t]
       IN  (r.nq > 0 /\ r.entry \in {"None", "closed"}) =>
              /\ r.pc \notin {"acquire", "execute"}
              /\ r.ret.status = NoConn
              /\ r.ret.rows = <<>>

\* C7: the agent exists, and a tool is invoked, only after setup created the
\* pool and the probe gave 1; once setup has failed the agent is never
\* created and no tool is invoked.
C7_ToolsOnlyAfterSetup ==
    /\ agent => (db_pool # "None" /\ probe = "1" /\ setupOk = "true")
    /\ \A t \in Tasks : task[t] # NoTask => agent
    /\ setupOk = "false" => (~agent /\ \A t \in Tasks : task[t] = NoTask)

\* the probe gave another value than 1: the run ended without an agent
C7_Witness ==
    /\ probe = "0"
    /\ setupOk = "false"
    /\ mainPc = "exited"
    /\ db_pool = "closed"
    /\ ~agent

\* a string cut or padded with spaces to exactly w characters
Fit(s, w) == [i \in 1..w |-> IF i <= Len(s) THEN s[i] ELSE " "]

\* the rows the table shows
Shown == SubSeq(results, 1, Min(Len(results), 20))

\* the display width of column j as the claim gives it
ClaimedWidth(j) ==
    LET longest == MaxOfSet({Len(StrOf(Shown[i][j][2])) : i \in 1..Len(Shown)})
    IN  Min(30, Max(Len(Shown[1][j][1]), longest))

\* the cells joined by " | "
Joined(cells) ==
    [k \in 1..(Len(cells[1]) + 3 + Len(cells[2])) |->
       IF k <= Len(cells[1]) THEN cells[1][k]
       ELSE IF k = Len(cells[1]) + 2 THEN "|"
       ELSE IF k <= Len(cells[1]) + 3 THEN " "
       ELSE cells[2][k - Len(cells[1]) - 3]]

\* C8: the header cell and every data cell of a column are rendered at the
\* column's width min(30, max(header, longest shown value)), so the header
\* line, the dashes and the data lines have one length.
C8_FixedWidth ==
    (fpc = "done" /\ Len(results) > 0) =>
       /\ formatted[3] = Joined([j \in 1..2 |-> Fit(Shown[1][j][1], ClaimedWidth(j))])
       /\ Len(formatted[4]) = Len(formatted[3])
       /\ \A i \in 1..Len(Shown) :
            /\ formatted[4 + i] =
                 Joined([j \in 1..2 |-> Fit(StrOf(Shown[i][j][2]), ClaimedWidth(j))])
            /\ Len(formatted[4 + i]) = Len(formatted[3])

\* C9: n > 0 rows give min(n, 20) data lines, the first rows in order; then
\* "... and n-20 more rows" if and only if n > 20; and at the end
\* "Total rows: n".
C9_RowLimitAndSummary ==
    (fpc = "done" /\ Len(results) > 0) =>
       LET n == Len(results)
           d == IF n < 20 THEN n ELSE 20
       IN  /\ Len(formatted) = 4 + d + (IF n > 20 THEN 2 ELSE 0) + 2
           /\ \A i \in 1..d :
                /\ Len(formatted[4 + i]) > 0
                /\ SubSeq(formatted[4 + i], 1, 2) = Fit(IntToStr(results[i][1][2].v), 2)
           /\ formatted[4 + d + 1] = <<>>
           /\ n > 20 =>
                formatted[4 + d + 2] = <<"... and ">> \o IntToStr(n - 20) \o <<" more rows">>
           /\ n <= 20 =>
                \A k \in 1..Len(formatted) :
                   Len(formatted[k]) = 0 \/ formatted[k][1] # "... and "
           /\ formatted[Len(formatted)] = <<"Total rows: ">> \o IntToStr(n)

\* 25 rows: 20 shown, "... and 5 more rows", "Total rows: 25"
C9_Witness ==
    /\ fpc = "done"
    /\ Len(results) = 25
    /\ Len(formatted) = 28
    /\ formatted[26] = <<"... and ", "5", " more rows">>
    /\ formatted[28] = <<"Total rows: ", "2", "5">>

\* C10: a query in which deny-listed keywords occur only inside longer
\* identifiers, none as a whole word, is not rejected: execute_query is
\* called with it.
C10_SubstringNotRejected ==
    \A t \in Tasks :
       LET r == task[t]
       IN  (r.op = "execute_sql_query" /\ DeniedSubstrings(r.arg) # {}
              /\ DeniedWords(r.arg) = {})
           => /\ ~IsRejection(r.result)
              /\ r.nq = 1
              /\ r.query = r.arg

\* "SELECT UPDATED_AT" went through the filter and the server answered
C10_Witness ==
    /\ task[1].op = "execute_sql_query"
    /\ task[1].arg = <<"S","E","L","E","C","T"," ","U","P","D","A","T","E","D","_","A","T">>
    /\ task[1].pc = "done"
    /\ task[1].nq = 1
    /\ task[1].result[1] = Success

=============================================================================
